---- MODULE Spec2Model ----
(***************************************************************************)
(* Model of the email-campaign generator (src/template_generator.py and   *)
(* its earlier variant src/template_generator_fresh.py): content          *)
(* generation with model fallback, the image prompt, the image            *)
(* download/compression pipeline, the Sendy campaign dispatch with its     *)
(* schedule formatting, and the size check of the two routes.              *)
(*                                                                         *)
(* Each component is a request-scoped state machine with its own          *)
(* specification (SpecGenerate, SpecImagePrompt, SpecImage, SpecSendy,     *)
(* SpecSchedule, SpecSizeGuard) over one shared set of variables; the      *)
(* requests share nothing but the configuration.                           *)
(***************************************************************************)
EXTENDS Integers, Sequences, FiniteSets, TLC

VARIABLES
    variant,                \* which source file runs: "main" or "fresh"
    hasQuotaExceededError,  \* does the installed openai package export QuotaExceededError
    SENDY_API_KEY,          \* module-level configuration
    gen_pc,                 \* generate_email_content: position
    gen_prompt,             \* its argument
    gen_calls,              \* chat-completion requests issued so far
    gen_primary,            \* outcome of the gpt-4 call
    gen_secondary,          \* outcome of the gpt-3.5-turbo call
    gen_path,               \* which return statement produced the result
    gen_result,             \* the returned record
    img_pc,                 \* generate_image: position
    img_api,                \* outcome of the images.generate call
    img_request,            \* the requests.get(image_url) call as issued
    img_status,             \* outcome of requests.get(image_url)
    img_original_size,      \* len(response.content)
    img_in,                 \* <<width, height>> of the decoded image
    img_out,                \* <<width, height>> of the image handed to the encoder
    img_encodes,            \* the image.save calls made: <<[quality, size], ...>>
    img_result,             \* what generate_image returned
    sendy_pc,               \* send_to_sendy: position
    sendy_args,             \* its arguments
    sendy_http,             \* HTTP requests issued so far, in order
    sendy_live,             \* outcome of the accessibility GET
    sendy_probe_status,     \* outcome of the API-key test POST
    sendy_payload,          \* campaign_data
    sendy_i,                \* index into sendy_endpoints of the next attempt
    sendy_j,                \* index into test_configs of the next attempt
    sendy_seen,             \* outcomes of the campaign POSTs made so far (status, or NoResponse)
    sendy_result,           \* the returned record
    sch_pc,                 \* the send-option branch of send_to_sendy: position
    sch_option,             \* send_option
    sch_requested,          \* scheduled_datetime
    sch_out,                \* send_campaign_value, the rounded datetime and its rendering
    guard_pc,               \* the size check of a route: position
    guard_route,            \* "/generate" or "/send-to-sendy"
    guard_in,               \* html_template before the check
    guard_out,              \* html_template returned, or handed to generator.send_to_sendy
    guard_status,           \* HTTP status the check answers with, 200 when it lets the HTML through
    prm_pc,                 \* generate_image_prompt: position
    prm_calls,              \* chat-completion requests issued so far
    prm_outcome,            \* outcome of the gpt-4 call
    prm_result,             \* the returned value
    art_clock,              \* /generate, two requests: the wall clock, in seconds
    art_req,                \* per request: position, subject line, image, campaign_name, timestamp
    art_writes              \* the files written so far: <<[path, request], ...>>

vars_config == <<variant, hasQuotaExceededError, SENDY_API_KEY>>
vars_gen == <<gen_pc, gen_prompt, gen_calls, gen_primary, gen_secondary, gen_path, gen_result>>
vars_img == <<img_pc, img_api, img_request, img_status, img_original_size, img_in, img_out,
              img_encodes, img_result>>
vars_sendy == <<sendy_pc, sendy_args, sendy_http, sendy_live, sendy_probe_status,
                sendy_payload, sendy_i, sendy_j, sendy_seen, sendy_result>>
vars_sch == <<sch_pc, sch_option, sch_requested, sch_out>>
vars_guard == <<guard_pc, guard_route, guard_in, guard_out, guard_status>>
vars_prm == <<prm_pc, prm_calls, prm_outcome, prm_result>>
vars_art == <<art_clock, art_req, art_writes>>
vars_more == <<vars_sch, vars_guard, vars_prm, vars_art>>
vars == <<vars_config, vars_gen, vars_img, vars_sendy, vars_more>>

----------------------------------------------------------------------------
(* Configuration *)

Variants == {"main", "fresh"}

\* template_generator_fresh.py hard-codes the key; template_generator.py
\* reads it from the environment with '' as default.
FreshSendyKey == "WEbCbmHWj7N774gWVVsD"
EnvSendyKeys == {"", "k3yk3yk3yk3yk3y"}

----------------------------------------------------------------------------
(* ContentGenerator: generate_email_content / get_fallback_content *)

Prompts == {"", "20% off conch salad this weekend", "sale"}

NoContent == [null |-> TRUE]

\* Parsed JSON bodies the model may answer with; json.loads returns the
\* decoded value as it is, so a body may carry any subset of the fields.
FullBody ==
    [subject_line |-> "Conch Fest", hero_title |-> "CONCH FEST",
     greeting |-> "Hi [Name,fallback=there]", headline |-> "Fresh conch",
     subheadline |-> "This weekend", bullet_points |-> <<"Fresh", "Local">>,
     main_content |-> "Come by", cta_text |-> "ORDER", cta_url |-> "https://x.test",
     urgency_text |-> "Ends Sunday", offer_details |-> "Claim 20% off"]
NoBulletsBody ==
    [subject_line |-> "Conch Fest", hero_title |-> "CONCH FEST",
     greeting |-> "Hi [Name,fallback=there]", main_content |-> "Come by",
     cta_text |-> "ORDER", cta_url |-> "https://x.test"]
SubjectOnlyBody == [subject_line |-> "Conch Fest"]
JsonBodies == {FullBody, NoBulletsBody, SubjectOnlyBody}

\* Exceptions a chat-completion call, the access to choices[0].message.content
\* or json.loads can raise.  QuotaExceededError can only be raised by a
\* package that defines it.
ChatFailures ==
    {"RateLimitError", "APIError", "JSONDecodeError", "Exception"}
        \cup (IF hasQuotaExceededError THEN {"QuotaExceededError"} ELSE {})

system_prompt == IF variant = "main" THEN "professional email marketing expert"
                 ELSE "Bahamian email marketing expert"

ChatRequest(model, prompt) ==
    [model |-> model, system |-> system_prompt,
     user |-> "Create an email campaign for: " \o prompt, temperature |-> 7]

get_fallback_content_static(prompt) ==
    IF variant = "main"
    THEN [subject_line |-> "Special Offer: ", hero_title |-> "SPECIAL OFFER",
          greeting |-> "Hi [Name,fallback=there]!",
          headline |-> "Exclusive Deal Just For You",
          subheadline |-> "Limited Time Opportunity",
          bullet_points |-> <<"Great value", "Quality service", "Special pricing">>,
          main_content |-> "Check out this amazing deal! " \o prompt,
          cta_text |-> "LEARN MORE", cta_url |-> "https://www.kemis.net",
          urgency_text |-> "Limited time offer!",
          offer_details |-> "Act now to secure your discount before this offer expires!"]
    ELSE [subject_line |-> "Special Offer: ", hero_title |-> "SPECIAL OFFER",
          greeting |-> "Hey Bey [Name,fallback=there]!",
          main_content |-> "Check out this amazing deal! " \o prompt,
          cta_text |-> "LEARN MORE", cta_url |-> "https://www.kemis.net",
          urgency_text |-> "Limited time offer!",
          offer_details |-> "Don't miss out!"]

get_fallback_content(prompt) ==
    IF variant = "main"
    THEN [subject_line |-> "Special Offer: " \o prompt, hero_title |-> "SPECIAL OFFER",
          greeting |-> "Hi [Name,fallback=there]!",
          headline |-> "Exclusive Deal Just For You",
          subheadline |-> "Limited Time Opportunity",
          bullet_points |-> <<"Great value", "Quality service", "Special pricing">>,
          main_content |-> "Check out this amazing deal! " \o prompt,
          cta_text |-> "LEARN MORE", cta_url |-> "https://www.kemis.net",
          urgency_text |-> "Limited time offer!",
          offer_details |-> "Act now to secure your discount before this offer expires!"]
    ELSE [subject_line |-> "Special Offer: " \o prompt, hero_title |-> "SPECIAL OFFER",
          greeting |-> "Hey Bey [Name,fallback=there]!",
          main_content |-> "Check out this amazing deal! " \o prompt,
          cta_text |-> "LEARN MORE", cta_url |-> "https://www.kemis.net",
          urgency_text |-> "Limited time offer!",
          offer_details |-> "Don't miss out!"]

\* The except clauses of the outer try are matched in order; the class
\* expression of a clause is evaluated when the clause is reached, so a
\* clause naming a class the package lacks raises AttributeError out of the
\* function before the later clauses are looked at.
\* Result: "fallback", "secondary" or "raise".
PrimaryHandler_retry_all(exc) ==
    IF ~hasQuotaExceededError /\ exc # "RateLimitError" THEN "raise"
    ELSE IF exc = "QuotaExceededError" THEN "fallback"
    ELSE "secondary"

PrimaryHandler(exc) ==
    IF exc = "RateLimitError" THEN "fallback"
    ELSE IF ~hasQuotaExceededError THEN "raise"
    ELSE IF exc = "QuotaExceededError" THEN "fallback"
    ELSE IF exc = "APIError" THEN "secondary"
    ELSE "fallback"

\* try: gpt-4 call, json.loads; on failure the except chain.
generate_email_content_primary ==
    /\ gen_pc = "idle"
    /\ \E prompt \in Prompts :
        /\ gen_prompt' = prompt
        /\ gen_calls' = Append(gen_calls, ChatRequest("gpt-4", prompt))
        /\ \/ \E body \in JsonBodies :
                /\ gen_primary' = "ok"
                /\ gen_result' = body
                /\ gen_path' = "primary"
                /\ gen_pc' = "returned"
           \/ \E exc \in ChatFailures :
                /\ gen_primary' = exc
                /\ LET h == PrimaryHandler(exc) IN
                    /\ gen_pc' = CASE h = "fallback" -> "returned"
                                   [] h = "secondary" -> "secondary"
                                   [] OTHER -> "raised"
                    /\ gen_path' = IF h = "fallback" THEN "fallback" ELSE gen_path
                    /\ gen_result' = IF h = "fallback" THEN get_fallback_content(prompt)
                                     ELSE gen_result
    /\ UNCHANGED <<gen_secondary, vars_config, vars_img, vars_sendy, vars_more>>

\* the bare except around the gpt-3.5-turbo attempt: return the fallback
after_secondary_failure_retry == "retry"

after_secondary_failure == "fallback"

\* except openai.APIError: try: gpt-3.5-turbo call, json.loads; except: fallback.
generate_email_content_secondary ==
    /\ gen_pc = "secondary"
    /\ gen_calls' = Append(gen_calls, ChatRequest("gpt-3.5-turbo", gen_prompt))
    /\ \/ \E body \in JsonBodies :
            /\ gen_secondary' = "ok"
            /\ gen_result' = body
            /\ gen_path' = "secondary"
            /\ gen_pc' = "returned"
       \/ \E exc \in ChatFailures :
            /\ gen_secondary' = exc
            /\ IF after_secondary_failure = "fallback"
               THEN /\ gen_result' = get_fallback_content(gen_prompt)
                    /\ gen_path' = "fallback"
                    /\ gen_pc' = "returned"
               ELSE /\ Len(gen_calls) < 4
                    /\ UNCHANGED <<gen_result, gen_path, gen_pc>>
    /\ UNCHANGED <<gen_prompt, gen_primary, vars_config, vars_img, vars_sendy, vars_more>>

----------------------------------------------------------------------------
(* ImageGenerator + ImageProcessor: generate_image / download_and_process_image *)

None == [none |-> TRUE]

target_width == 560
LargeOriginal == 1024 * 1024
SizeLimit == 300 * 1024

\* Bounds of the image inputs
MaxDim == 1025          \* largest width/height of a downloaded image
SizeSlack == 1          \* how far the sizes drawn lie around each threshold

\* floor(log2(n)) for n >= 1
RECURSIVE Log2Floor(_)
Log2Floor(n) == IF n < 2 THEN 0 ELSE 1 + Log2Floor(n \div 2)

\* 2^k mod m, by repeated squaring
RECURSIVE Pow2Mod(_, _)
Pow2Mod(k, m) ==
    IF k = 0 THEN 1 % m
    ELSE LET h == Pow2Mod(k \div 2, m) IN ((h * h) * (IF k % 2 = 1 THEN 2 ELSE 1)) % m

\* (a * 2^k) mod m
MulPow2Mod(a, k, m) == ((a % m) * Pow2Mod(k, m)) % m

\* floor(log2(target_width / W)): the binary exponent of the quotient
RECURSIVE RatioExpUp(_, _)
RatioExpUp(W, q) == IF W * 2^(q + 1) <= target_width THEN RatioExpUp(W, q + 1) ELSE q
RECURSIVE RatioExpDown(_, _)
RatioExpDown(W, j) == IF W > target_width * 2^j THEN RatioExpDown(W, j + 1) ELSE 0 - j
RatioExp(W) == IF W <= target_width THEN RatioExpUp(W, 0) ELSE RatioExpDown(W, 1)

\* ratio = target_width / image.width is a double: the quotient rounded to 53
\* significant bits, ties to even.  RatioErr(W) = (ratio * W - target_width) * 2^k
\* with k = 52 - RatioExp(W): the signed rounding error, scaled to an integer.
RatioErr(W) ==
    LET k == 52 - RatioExp(W)
        r2 == MulPow2Mod(target_width, k, 2 * W)
        rem == r2 % W
    IN  IF 2 * rem < W THEN 0 - rem
        ELSE IF 2 * rem > W THEN W - rem
        ELSE IF r2 >= W THEN W - rem ELSE 0 - rem

\* Does the double product H * ratio, whose exact value lies just below the
\* integer n = H * target_width / W, round (to nearest, ties to even) up to n?
ProductRoundsUp(W, H, n) ==
    LET e0 == Log2Floor(n)
        es == IF 2^e0 = n THEN e0 - 1 ELSE e0
        d == es - RatioExp(W) - 1
        lhs == H * (0 - RatioErr(W))
    IN  IF d >= 0 THEN lhs <= W * 2^d ELSE lhs * 2^(0 - d) <= W

\* new_height = int(image.height * ratio), in double arithmetic
new_height_rounded(W, H) == (2 * H * target_width + W) \div (2 * W)

new_height(W, H) ==
    LET n == (H * target_width) \div W IN
    IF (H * target_width) % W # 0 THEN n
    ELSE IF RatioErr(W) >= 0 \/ n = 0 THEN n
    ELSE IF ProductRoundsUp(W, H, n) THEN n
    ELSE n - 1

\* if image.width != target_width: image = image.resize((target_width, new_height))
resized(W, H) == IF W # target_width THEN <<target_width, new_height(W, H)>> ELSE <<W, H>>

\* quality chosen from the size of the download
initial_quality_inclusive(original_size) == IF original_size >= LargeOriginal THEN 60 ELSE 70

initial_quality(original_size) == IF original_size > LargeOriginal THEN 60 ELSE 70

\* The image.save calls of the function, given the sizes the encoder
\* produces at the initial quality, at 30 and at 20.
compression_ladder_eager(q, s0, s30, s20) ==
    IF s0 > SizeLimit
    THEN <<[quality |-> q, size |-> s0], [quality |-> 30, size |-> s30],
           [quality |-> 20, size |-> s20]>>
    ELSE <<[quality |-> q, size |-> s0]>>

compression_ladder(q, s0, s30, s20) ==
    IF s0 > SizeLimit
    THEN IF s30 > SizeLimit
         THEN <<[quality |-> q, size |-> s0], [quality |-> 30, size |-> s30],
                [quality |-> 20, size |-> s20]>>
         ELSE <<[quality |-> q, size |-> s0], [quality |-> 30, size |-> s30]>>
    ELSE <<[quality |-> q, size |-> s0]>>

\* f"data:image/jpeg;base64,{image_data}": the bytes of the last encode
data_reference(size) == [scheme |-> "data", mime |-> "image/jpeg", encoding |-> "base64", bytes |-> size]

\* the value returned after the ladder: None when the last encode is still too large
ladder_result_unchecked(encodes) == data_reference(encodes[Len(encodes)].size)

ladder_result(encodes) ==
    IF encodes[Len(encodes)].size > SizeLimit THEN None
    ELSE data_reference(encodes[Len(encodes)].size)

ImageDims ==
    {<<560, 400>>, <<1024, 1024>>, <<1000, 1001>>, <<17, 51>>, <<561, 3>>,
     <<MaxDim, 1>>, <<MaxDim, MaxDim>>, <<559, MaxDim>>}
OriginalSizes == (LargeOriginal - SizeSlack) .. (LargeOriginal + SizeSlack)
EncodedSizes == (SizeLimit - SizeSlack) .. (SizeLimit + SizeSlack)
DownloadStatuses == {200, 204, 404, 500}
NoTimeout == 0          \* requests called without timeout: waits without limit
\* requests.get(image_url)
DownloadRequest ==
    [method |-> "GET", url |-> "https://oaidalleapiprodscus.blob.core.windows.net/private/img-1.png",
     timeout |-> NoTimeout, shape |-> "none"]
NoResponse == 0         \* requests raised (timeout, connection error): no status
NotCalled == 0 - 1

ImageFailures ==
    {"RateLimitError", "APIError", "Exception"}
        \cup (IF hasQuotaExceededError THEN {"QuotaExceededError"} ELSE {})

\* except chain of generate_image: "none" (return None) or "raise"
ImageHandler(exc) ==
    IF exc = "RateLimitError" THEN "none"
    ELSE IF ~hasQuotaExceededError THEN "raise"
    ELSE "none"

\* images.generate(...) and the except chain around it
generate_image_call ==
    /\ img_pc = "idle"
    /\ \/ /\ img_api' = "ok"
          /\ img_pc' = "download"
          /\ UNCHANGED img_result
       \/ \E exc \in ImageFailures :
            /\ img_api' = exc
            /\ img_pc' = IF ImageHandler(exc) = "raise" THEN "raised" ELSE "returned"
            /\ UNCHANGED img_result
    /\ UNCHANGED <<img_request, img_status, img_original_size, img_in, img_out, img_encodes,
                   vars_config, vars_gen, vars_sendy, vars_more>>

\* download_and_process_image, returned through generate_image: the GET fails
\* or answers a status other than 200
download_failed ==
    /\ img_pc = "download"
    /\ img_request' = DownloadRequest
    /\ img_status' \in {NoResponse} \cup (DownloadStatuses \ {200})
    /\ img_result' = None
    /\ img_pc' = "returned"
    /\ UNCHANGED <<img_api, img_original_size, img_in, img_out, img_encodes,
                   vars_config, vars_gen, vars_sendy, vars_more>>

\* status 200, but Image.open, resize or save raises: except Exception -> None
download_and_process_image_error ==
    /\ img_pc = "download"
    /\ img_request' = DownloadRequest
    /\ img_status' = 200
    /\ \/ UNCHANGED <<img_in, img_out, img_original_size>>          \* Image.open raises
       \/ \E d \in ImageDims :                                     \* resize to height 0 raises
            /\ resized(d[1], d[2])[2] = 0
            /\ img_in' = d
            /\ UNCHANGED <<img_out, img_original_size>>
       \/ \E d \in ImageDims, original_size \in OriginalSizes :    \* image.save raises (a mode JPEG cannot store)
            /\ resized(d[1], d[2])[2] > 0
            /\ img_in' = d
            /\ img_out' = resized(d[1], d[2])
            /\ img_original_size' = original_size
    /\ img_result' = None
    /\ img_pc' = "returned"
    /\ UNCHANGED <<img_api, img_encodes, vars_config, vars_gen, vars_sendy, vars_more>>

\* status 200 and the image decodes: resize, convert to RGB, encode along the ladder
download_and_process_image ==
    /\ img_pc = "download"
    /\ img_request' = DownloadRequest
    /\ img_status' = 200
    /\ \E original_size \in OriginalSizes, d \in ImageDims,
          s0 \in EncodedSizes, s30 \in EncodedSizes, s20 \in EncodedSizes :
        /\ resized(d[1], d[2])[2] > 0
        /\ img_original_size' = original_size
        /\ img_in' = d
        /\ img_out' = resized(d[1], d[2])
        /\ img_encodes' = compression_ladder(initial_quality(original_size), s0, s30, s20)
        /\ img_result' = ladder_result(img_encodes')
    /\ img_pc' = "returned"
    /\ UNCHANGED <<img_api, vars_config, vars_gen, vars_sendy, vars_more>>

----------------------------------------------------------------------------
(* CampaignDispatcher: TemplateGenerator.send_to_sendy *)

test_url == "https://kemis.net/sendy/"
test_api_url == "https://kemis.net/sendy/api/subscribers.php"
sendy_endpoints_repeated ==
    <<"https://kemis.net/sendy/api/campaigns/create.php",
      "https://kemis.net/sendy/api/campaigns/create.php",
      "https://kemis.net/sendy/api/campaigns/create",
      "https://kemis.net/sendy/api/campaigns.php",
      "https://kemis.net/sendy/api/campaigns">>

sendy_endpoints ==
    <<"https://kemis.net/sendy/api/campaigns/create.php",
      "https://kemis.net/sendy/api/campaigns/create",
      "https://kemis.net/sendy/api/campaigns.php",
      "https://kemis.net/sendy/api/campaigns">>
\* test_configs: body encoding and headers of each request shape
test_configs ==
    <<[body |-> "data", headers |-> {"Content-Type: application/x-www-form-urlencoded"}],
      [body |-> "data", headers |-> {}],
      [body |-> "data", headers |-> {"Content-Type: application/x-www-form-urlencoded",
                                     "User-Agent: KemisEmail/1.0", "Accept: */*"}],
      [body |-> "json", headers |-> {"Content-Type: application/json"}]>>
default_list_ids == "DU0p7BsJdnwE0MXNZusbMQ,fO6BdhtVFBdzyQBMcG6Yiw"

NoValue == [none |-> TRUE]      \* Python None as an argument

\* Arguments of a call.  scheduled_datetime is None, a text int() rejects,
\* or a timestamp given by the local date and time fromtimestamp yields.
\* template_generator_fresh.py takes neither list_ids nor send options.
SendyContents == {FullBody, NoBulletsBody, SubjectOnlyBody}
NoTimestamp == [kind |-> "none", year |-> 0, month |-> 0, day |-> 0, hour |-> 0, minute |-> 0]
TextTimestamp == [kind |-> "text", year |-> 0, month |-> 0, day |-> 0, hour |-> 0, minute |-> 0]
Timestamp(year, month, day, hour, minute) ==
    [kind |-> "ts", year |-> year, month |-> month, day |-> day, hour |-> hour, minute |-> minute]
\* the number 0, and the text "0", which int() turns into the epoch
ZeroTimestamp == [kind |-> "zero", year |-> 0, month |-> 0, day |-> 0, hour |-> 0, minute |-> 0]
ZeroText == [kind |-> "zerotext", year |-> 1970, month |-> 1, day |-> 1, hour |-> 0, minute |-> 0]
\* `and scheduled_datetime`: None and the number 0 are false, any
\* non-empty text is true
falsy(scheduled_datetime) == scheduled_datetime.kind \in {"none", "zero"}
ScheduleTimes ==
    {NoTimestamp, TextTimestamp,
     Timestamp(2021, 6, 15, 18, 5), Timestamp(2026, 11, 5, 9, 47),
     Timestamp(2026, 12, 31, 23, 58)}
SendOptions == {"draft", "send_now", "schedule"}
SendyCalls ==
    IF variant = "fresh"
    THEN {[content |-> c, list_ids |-> "", send_option |-> "draft",
           scheduled_datetime |-> NoTimestamp] : c \in SendyContents}
    ELSE {[content |-> c, list_ids |-> l, send_option |-> o, scheduled_datetime |-> t] :
            c \in SendyContents, l \in {"", "Lst1"}, o \in SendOptions, t \in ScheduleTimes}

SendyStatuses == {200, 201, 403, 500}
ResponseBodies == {"Campaign created", "Campaign created and now sending"}

HttpRequest(method, url, timeout, shape) ==
    [method |-> method, url |-> url, timeout |-> timeout, shape |-> shape]

\* the fields send_to_sendy reads with content[...]
IndexedFields == {"subject_line", "hero_title", "greeting", "main_content", "cta_text", "cta_url"}

Min(a, b) == IF a < b THEN a ELSE b

\* round(minutes / 5) * 5
rounded_minutes(minutes) == ((2 * minutes + 5) \div 10) * 5

\* A naive local datetime, and the exception datetime.replace raises
DateTime(year, month, day, hour, minute) ==
    [year |-> year, month |-> month, day |-> day, hour |-> hour, minute |-> minute]
NoDateTime == DateTime(0, 0, 0, 0, 0)

\* schedule_dt.replace(hour=hour, minute=minute): the fields are validated,
\* never carried
replace_valid(hour, minute) == hour \in 0..23 /\ minute \in 0..59

\* strftime("%B %d, %Y %I:%M%p") in the C locale
MonthNames ==
    <<"January", "February", "March", "April", "May", "June", "July", "August",
      "September", "October", "November", "December">>
DigitChars == <<"0", "1", "2", "3", "4", "5", "6", "7", "8", "9">>
Digit(d) == DigitChars[d + 1]
TwoDigits(n) == Digit((n \div 10) % 10) \o Digit(n % 10)
FourDigits(n) == TwoDigits(n \div 100) \o TwoDigits(n % 100)
Hour12(hour) == IF hour % 12 = 0 THEN 12 ELSE hour % 12
Meridiem(hour) == IF hour < 12 THEN "AM" ELSE "PM"
strftime(dt) ==
    MonthNames[dt.month] \o " " \o TwoDigits(dt.day) \o ", " \o FourDigits(dt.year)
        \o " " \o TwoDigits(Hour12(dt.hour)) \o ":" \o TwoDigits(dt.minute)
        \o Meridiem(dt.hour)

CharAt(s, i) == IF i \in 1..Len(s) THEN SubSeq(s, i, i) ELSE ""
UpperCase == <<"A", "B", "C", "D", "E", "F", "G", "H", "I", "J", "K", "L", "M",
               "N", "O", "P", "Q", "R", "S", "T", "U", "V", "W", "X", "Y", "Z">>
LowerCase == <<"a", "b", "c", "d", "e", "f", "g", "h", "i", "j", "k", "l", "m",
               "n", "o", "p", "q", "r", "s", "t", "u", "v", "w", "x", "y", "z">>
IsDigit(c) == \E k \in DOMAIN DigitChars : DigitChars[k] = c
IsWord(c) ==
    \/ IsDigit(c)
    \/ c = "_"
    \/ \E k \in DOMAIN UpperCase : UpperCase[k] = c \/ LowerCase[k] = c
IsSpace(c) == c = " "

\* str.lower(): every cased character of the string, the month name's too
RECURSIVE lower(_)
lower(s) ==
    IF Len(s) = 0 THEN s
    ELSE IF Len(s) = 1
    THEN IF \E k \in DOMAIN UpperCase : UpperCase[k] = s
         THEN LowerCase[CHOOSE k \in DOMAIN UpperCase : UpperCase[k] = s]
         ELSE s
    ELSE LET h == Len(s) \div 2
         IN  lower(SubSeq(s, 1, h)) \o lower(SubSeq(s, h + 1, Len(s)))

\* s[from..to] without the characters at the positions in removed
RECURSIVE without(_, _, _, _)
without(s, from, to, removed) ==
    IF from > to THEN ""
    ELSE IF from = to THEN (IF from \in removed THEN "" ELSE CharAt(s, from))
    ELSE LET h == (from + to) \div 2
         IN  without(s, from, h, removed) \o without(s, h + 1, to, removed)

\* re.sub(r'(\w+)\s+0(\d),', r'\1 \2,', s) on a string whose words are
\* separated by single spaces: the zero of " 0<digit>," after a word goes
day_zero(s) ==
    {p \in 1..Len(s) :
        /\ CharAt(s, p) = "0"
        /\ IsSpace(CharAt(s, p - 1)) /\ IsWord(CharAt(s, p - 2))
        /\ IsDigit(CharAt(s, p + 1)) /\ CharAt(s, p + 2) = ","}
strip_day_zero(s) == without(s, 1, Len(s), day_zero(s))

\* re.sub(r'(\s)0(\d:\d{2}[ap]m)', r'\1\2', s): the zero of " 0<digit>:<mm>am"
\* or "...pm" goes; the meridiem is matched in lower case only
hour_zero(s) ==
    {p \in 1..Len(s) :
        /\ CharAt(s, p) = "0"
        /\ IsSpace(CharAt(s, p - 1))
        /\ IsDigit(CharAt(s, p + 1)) /\ CharAt(s, p + 2) = ":"
        /\ IsDigit(CharAt(s, p + 3)) /\ IsDigit(CharAt(s, p + 4))
        /\ CharAt(s, p + 5) \in {"a", "p"} /\ CharAt(s, p + 6) = "m"}
strip_hour_zero(s) == without(s, 1, Len(s), hour_zero(s))

\* schedule_date_time_str of a rounded datetime
schedule_date_time_str(dt) == strip_hour_zero(strip_day_zero(lower(strftime(dt))))

\* The send-option branch on send_option and scheduled_datetime: "none"
\* when nothing is scheduled, "error" when int() or datetime.replace raises
\* ValueError, else "time" with the rounded local datetime.
schedule_branch_any_option(send_option, scheduled_datetime) ==
    IF falsy(scheduled_datetime)
    THEN [kind |-> "none", dt |-> NoDateTime]
    ELSE IF scheduled_datetime.kind = "text"
    THEN [kind |-> "error", dt |-> NoDateTime]
    ELSE LET t == scheduled_datetime
             r == rounded_minutes(t.minute)
             hour == IF r = 60 THEN t.hour + 1 ELSE t.hour
             minute == IF r = 60 THEN 0 ELSE r
         IN  IF replace_valid(hour, minute)
             THEN [kind |-> "time", dt |-> DateTime(t.year, t.month, t.day, hour, minute)]
             ELSE [kind |-> "error", dt |-> NoDateTime]

schedule_branch(send_option, scheduled_datetime) ==
    IF send_option # "schedule" \/ falsy(scheduled_datetime)
    THEN [kind |-> "none", dt |-> NoDateTime]
    ELSE IF scheduled_datetime.kind = "text"
    THEN [kind |-> "error", dt |-> NoDateTime]
    ELSE LET t == scheduled_datetime
             r == rounded_minutes(t.minute)
             hour == IF r = 60 THEN t.hour + 1 ELSE t.hour
             minute == IF r = 60 THEN 0 ELSE r
         IN  IF replace_valid(hour, minute)
             THEN [kind |-> "time", dt |-> DateTime(t.year, t.month, t.day, hour, minute)]
             ELSE [kind |-> "error", dt |-> NoDateTime]

\* send_campaign_value of the same branch
send_campaign_of_any_schedule(send_option, scheduled_datetime) ==
    IF send_option = "send_now" THEN "1"
    ELSE IF send_option = "schedule" THEN "1"
    ELSE "0"

send_campaign_of(send_option, scheduled_datetime) ==
    IF send_option = "send_now" THEN "1"
    ELSE IF send_option = "schedule" /\ ~falsy(scheduled_datetime) THEN "1"
    ELSE "0"

schedule_of(args) ==
    IF variant = "fresh" THEN [kind |-> "none", dt |-> NoDateTime]
    ELSE schedule_branch(args.send_option, args.scheduled_datetime)

send_campaign_value(args) ==
    IF variant = "fresh" THEN "0"
    ELSE send_campaign_of(args.send_option, args.scheduled_datetime)

\* campaign_data; schedule_date_time is added only when scheduling
campaign_data(args) ==
    LET subject == args.content.subject_line
        base == [api_key |-> SENDY_API_KEY, brand_id |-> "1",
                 title |-> SubSeq(subject, 1, Min(30, Len(subject))) \o " - " \o "11-03-2026",
                 subject |-> subject,
                 list_ids |-> IF variant = "fresh" \/ args.list_ids = ""
                              THEN default_list_ids ELSE args.list_ids,
                 send_campaign |-> send_campaign_value(args)]
        sched == schedule_of(args)
    IN  IF sched.kind = "time"
        THEN [f \in DOMAIN base \cup {"schedule_date_time"} |->
                IF f = "schedule_date_time" THEN schedule_date_time_str(sched.dt) ELSE base[f]]
        ELSE base

MissingKeyResult == [success |-> FALSE, error |-> "SENDY_API_KEY environment variable is not set"]
NotAccessibleResult == [success |-> FALSE, error |-> "Sendy installation not accessible: ConnectionError"]
ErrorResult(message) == [success |-> FALSE, error |-> "Error sending to Sendy: " \o message]
SuccessResult(url, body) ==
    [success |-> TRUE, message |-> "Successfully sent to Sendy using " \o url, response |-> body]
ExhaustedResult ==
    [success |-> FALSE,
     error |-> "Sendy API error: All endpoints returned 403 Forbidden. This suggests a server configuration issue. Try the curl command above to test manually.",
     debug_info |->
        [api_key |-> SubSeq(SENDY_API_KEY, 1, Min(8, Len(SENDY_API_KEY))) \o "...",
         endpoints_tried |-> sendy_endpoints,
         curl_command |-> "curl -X POST https://kemis.net/sendy/api/campaigns/create.php -d api_key=" \o SENDY_API_KEY,
         suggestions |-> <<"Check if Sendy API is accessible at https://kemis.net/sendy/",
                           "Verify API key in Sendy settings",
                           "Check server .htaccess or firewall rules",
                           "Try the curl command above to test manually">>]]

TimeoutResult == [success |-> FALSE, error |-> "Sendy API timeout - server took too long to respond"]
ConnectionErrorResult ==
    [success |-> FALSE, error |-> "Sendy API connection error - could not reach server"]

\* an exception that leaves send_to_sendy
Raised == [raised |-> TRUE]

\* The except clauses of the outer try, in order: what the function returns
\* for an exception of class exc with str(e) = message raised anywhere
\* inside it
outer_except_requests_only(exc, message) ==
    IF exc = "Timeout" THEN TimeoutResult
    ELSE IF exc = "ConnectionError" THEN ConnectionErrorResult
    ELSE Raised

outer_except(exc, message) ==
    IF exc = "Timeout" THEN TimeoutResult
    ELSE IF exc = "ConnectionError" THEN ConnectionErrorResult
    ELSE ErrorResult(message)

\* What the end of the loop returns.  template_generator_fresh.py formats
\* the undefined name date_time into curl_command: the NameError is caught
\* by the outer except Exception.
exhausted_result ==
    IF variant = "fresh" THEN outer_except("NameError", "name 'date_time' is not defined")
    ELSE ExhaustedResult

\* class of the exception the payload construction raises
build_exception(args) ==
    IF IndexedFields \subseteq DOMAIN args.content THEN "ValueError" ELSE "KeyError"

\* str(e) of the exception the payload construction raises: the KeyError of
\* the first content[...] key that is missing, else the ValueError of the
\* schedule conversion
build_error(args) ==
    LET missing(f) == f \notin DOMAIN args.content IN
    IF missing("subject_line") THEN "'subject_line'"
    ELSE IF missing("hero_title") THEN "'hero_title'"
    ELSE IF missing("greeting") THEN "'greeting'"
    ELSE IF missing("main_content") THEN "'main_content'"
    ELSE IF missing("cta_text") THEN "'cta_text'"
    ELSE IF missing("cta_url") THEN "'cta_url'"
    ELSE IF args.scheduled_datetime.kind = "text" THEN "invalid literal for int() with base 10"
    ELSE "hour must be in 0..23"

\* the credential guard of template_generator.py; the fresh variant has none
credential_missing_unchecked == FALSE

credential_missing == variant = "main" /\ SENDY_API_KEY = ""

\* Outcomes of the accessibility GET: any response, whatever its status,
\* or an exception of requests
LivenessOutcomes == {200, 403, NoResponse}

\* try/except around the accessibility GET: a response is only printed,
\* an exception returns the failure record at once
after_liveness_ignored(outcome) == "probe"

after_liveness(outcome) == IF outcome = NoResponse THEN "return" ELSE "probe"

\* try/except around the API-key test POST: the response and the
\* exception alike are only printed
after_probe_fatal(outcome) == IF outcome = 200 THEN "continue" ELSE "return"

after_probe(outcome) == "continue"

\* except requests.exceptions.RequestException inside the inner loop
on_request_exception_abort == "return"

on_request_exception == "continue"

\* Entry: credential guard, then the accessibility GET
send_to_sendy_start ==
    /\ sendy_pc = "idle"
    /\ \E args \in SendyCalls :
        /\ sendy_args' = args
        /\ IF credential_missing
           THEN /\ sendy_result' = MissingKeyResult
                /\ sendy_pc' = "returned"
                /\ UNCHANGED <<sendy_http, sendy_live>>
           ELSE /\ sendy_http' = Append(sendy_http, HttpRequest("GET", test_url, 10, "none"))
                /\ \E outcome \in LivenessOutcomes :
                    /\ sendy_live' = outcome
                    /\ IF after_liveness(outcome) = "return"
                       THEN /\ sendy_result' = NotAccessibleResult
                            /\ sendy_pc' = "returned"
                       ELSE /\ sendy_pc' = "probe"
                            /\ UNCHANGED sendy_result
    /\ UNCHANGED <<sendy_probe_status, sendy_payload, sendy_i, sendy_j, sendy_seen,
                   vars_config, vars_gen, vars_img, vars_more>>

\* The API-key test POST, whose outcome is only printed, then the payload
\* is built; a KeyError or ValueError there reaches the outer except Exception.
send_to_sendy_probe ==
    /\ sendy_pc = "probe"
    /\ sendy_http' = Append(sendy_http, HttpRequest("POST", test_api_url, 10, "data"))
    /\ \E outcome \in SendyStatuses \cup {NoResponse} :
        /\ sendy_probe_status' = outcome
        /\ IF after_probe(outcome) = "return"
           THEN /\ sendy_result' = ErrorResult("API test failed")
                /\ sendy_pc' = "returned"
                /\ UNCHANGED <<sendy_payload, sendy_i, sendy_j>>
           ELSE IF ~(IndexedFields \subseteq DOMAIN sendy_args.content)
                   \/ schedule_of(sendy_args).kind = "error"
           THEN /\ LET r == outer_except(build_exception(sendy_args), build_error(sendy_args))
                   IN  IF r = Raised
                       THEN sendy_pc' = "raised" /\ UNCHANGED sendy_result
                       ELSE sendy_pc' = "returned" /\ sendy_result' = r
                /\ UNCHANGED <<sendy_payload, sendy_i, sendy_j>>
           ELSE /\ sendy_payload' = campaign_data(sendy_args)
                /\ sendy_pc' = "loop"
                /\ sendy_i' = 1
                /\ sendy_j' = 1
                /\ UNCHANGED sendy_result
    /\ UNCHANGED <<sendy_args, sendy_live, sendy_seen, vars_config, vars_gen, vars_img, vars_more>>

\* is this status the one the loop returns success on
is_success_2xx(status) == status >= 200 /\ status < 300

is_success(status) == status = 200

\* One iteration of the inner loop: POST to sendy_endpoints[i] with
\* test_configs[j]; success returns, anything else, an exception of
\* requests included, moves on; after the last pair the failure record
\* with debug_info is returned.
send_to_sendy_attempt ==
    /\ sendy_pc = "loop"
    /\ sendy_http' = Append(sendy_http,
            HttpRequest("POST", sendy_endpoints[sendy_i], 30, sendy_j))
    /\ \E status \in SendyStatuses \cup {NoResponse}, body \in ResponseBodies :
        /\ sendy_seen' = sendy_seen \cup {status}
        /\ IF status # NoResponse /\ is_success(status)
           THEN /\ sendy_result' = SuccessResult(sendy_endpoints[sendy_i], body)
                /\ sendy_pc' = "returned"
                /\ UNCHANGED <<sendy_i, sendy_j>>
           ELSE IF status = NoResponse /\ on_request_exception = "return"
           THEN /\ sendy_result' = TimeoutResult
                /\ sendy_pc' = "returned"
                /\ UNCHANGED <<sendy_i, sendy_j>>
           ELSE IF sendy_j < Len(test_configs)
           THEN /\ sendy_j' = sendy_j + 1
                /\ UNCHANGED <<sendy_i, sendy_pc, sendy_result>>
           ELSE IF sendy_i < Len(sendy_endpoints)
           THEN /\ sendy_i' = sendy_i + 1
                /\ sendy_j' = 1
                /\ UNCHANGED <<sendy_pc, sendy_result>>
           ELSE /\ IF exhausted_result = Raised
                   THEN sendy_pc' = "raised" /\ UNCHANGED sendy_result
                   ELSE sendy_pc' = "returned" /\ sendy_result' = exhausted_result
                /\ UNCHANGED <<sendy_i, sendy_j>>
    /\ UNCHANGED <<sendy_args, sendy_live, sendy_probe_status, sendy_payload,
                   vars_config, vars_gen, vars_img, vars_more>>

----------------------------------------------------------------------------
(* The send-option branch of send_to_sendy, on its own *)

ScheduleYears == {2021}
ScheduleDays == {5, 15}
ScheduleRequests ==
    {NoTimestamp, TextTimestamp, ZeroTimestamp, ZeroText}
        \cup {Timestamp(y, m, d, h, mi) :
                y \in ScheduleYears, m \in 1..12, d \in ScheduleDays, h \in 0..23, mi \in 0..59}

\* send_campaign_value and schedule_date_time_str of one request; the
\* ValueError of int() or datetime.replace leaves the branch.
\* template_generator_fresh.py has no such branch.
send_option_branch ==
    /\ sch_pc = "idle"
    /\ variant = "main"
    /\ \E o \in SendOptions \cup {"later"} :    \* any string of the request
       \E t \in (IF o = "schedule" THEN ScheduleRequests ELSE ScheduleTimes) :
        /\ sch_option' = o
        /\ sch_requested' = t
        /\ LET b == schedule_branch(o, t) IN
            IF b.kind = "error"
            THEN /\ sch_pc' = "raised"
                 /\ UNCHANGED sch_out
            ELSE /\ sch_pc' = "done"
                 /\ sch_out' =
                        IF b.kind = "time"
                        THEN [send_campaign_value |-> send_campaign_of(o, t),
                              schedule_dt |-> b.dt,
                              schedule_date_time_str |-> schedule_date_time_str(b.dt)]
                        ELSE [send_campaign_value |-> send_campaign_of(o, t)]
    /\ UNCHANGED <<vars_config, vars_gen, vars_img, vars_sendy, vars_guard, vars_prm, vars_art>>

----------------------------------------------------------------------------
(* SizeGuard: the size check of /generate and of /send-to-sendy *)

\* html_template as the sequence of its pieces: markup and text between
\* data URIs (with or without a ';' in it), a base64 image URI
\* data:image/<mime>;base64,<length characters of [A-Za-z0-9+/=]>, an image
\* URI without ';' (data:image/<mime>,<payload>), and the placeholder.
\* A piece of text neither starts with a base64 character nor holds
\* "data:image/".
Text(chars, bytes, semicolon) ==
    [kind |-> "text", chars |-> chars, bytes |-> bytes, semicolon |-> semicolon]
Base64Image(mime, length) == [kind |-> "base64", mime |-> mime, length |-> length]
PlainImage(mime, length) == [kind |-> "plain", mime |-> mime, length |-> length]
Placeholder == [kind |-> "placeholder"]
placeholder_text == "data:image/jpeg;base64,PLACEHOLDER_IMAGE_REMOVED"

\* the {1000,} of base64_pattern
min_base64_run == 1000

\* len(piece.encode('utf-8'))
utf8_size(piece) ==
    CASE piece.kind = "text" -> piece.bytes
      [] piece.kind = "base64" ->
            Len("data:image/") + Len(piece.mime) + Len(";base64,") + piece.length
      [] piece.kind = "plain" -> Len("data:image/") + Len(piece.mime) + Len(",") + piece.length
      [] OTHER -> Len(placeholder_text)

RECURSIVE utf8_len_from(_, _)
utf8_len_from(html, k) ==
    IF k > Len(html) THEN 0 ELSE utf8_size(html[k]) + utf8_len_from(html, k + 1)

\* len(html_template.encode('utf-8'))
utf8_len(html) == utf8_len_from(html, 1)

\* [^;]+ of base64_pattern running on from a data URI that has no ';': it
\* crosses every piece without ';' and matches when the first ';' it meets
\* starts ";base64," followed by at least min_base64_run base64 characters.
\* Result: the piece the match ends in, 0 when there is no match.
RECURSIVE span_end(_, _)
span_end(html, m) ==
    IF m > Len(html) THEN 0
    ELSE CASE html[m].kind = "base64" -> IF html[m].length >= min_base64_run THEN m ELSE 0
           [] html[m].kind = "placeholder" -> 0
           [] html[m].kind = "text" -> IF html[m].semicolon THEN 0 ELSE span_end(html, m + 1)
           [] OTHER -> span_end(html, m + 1)

\* a match of base64_pattern starting at the "data:image/" of piece k
match_end(html, k) ==
    CASE html[k].kind = "base64" -> IF html[k].length >= min_base64_run THEN k ELSE 0
      [] html[k].kind = "plain" -> span_end(html, k + 1)
      [] OTHER -> 0

\* re.sub(base64_pattern, placeholder, html_template): leftmost matches,
\* each replaced whole
RECURSIVE re_sub_from(_, _)
re_sub_from(html, k) ==
    IF k > Len(html) THEN <<>>
    ELSE LET e == match_end(html, k)
         IN  IF e = 0 THEN <<html[k]>> \o re_sub_from(html, k + 1)
             ELSE <<Placeholder>> \o re_sub_from(html, e + 1)

compressed_html_first(html) ==
    LET starts == {k \in DOMAIN html : match_end(html, k) # 0} IN
    IF starts = {} THEN html
    ELSE LET k == CHOOSE a \in starts : \A b \in starts : a <= b
         IN  SubSeq(html, 1, k - 1) \o <<Placeholder>>
                \o SubSeq(html, match_end(html, k) + 1, Len(html))

compressed_html(html) == re_sub_from(html, 1)

Ceiling(route) == IF route = "/generate" THEN 800 * 1024 ELSE 1024 * 1024

\* html_size > ceiling
over_ceiling_inclusive(size, ceiling) == size >= ceiling

over_ceiling(size, ceiling) == size > ceiling

\* The check of both routes: status 200 with the HTML to go on with, or 413
size_check(html, ceiling) ==
    IF over_ceiling(utf8_len(html), ceiling)
    THEN LET compressed == compressed_html(html)
         IN  IF over_ceiling(utf8_len(compressed), ceiling)
             THEN [status |-> 413, html |-> <<>>]
             ELSE [status |-> 200, html |-> compressed]
    ELSE [status |-> 200, html |-> html]

MaxPieces == 4
HtmlPieces(ceiling) ==
    {Text(200, 200, TRUE), Text(20, 24, FALSE),
     Text(ceiling - 48, ceiling - 48, TRUE), Text(ceiling - 47, ceiling - 47, TRUE),
     Text(ceiling - 1023, ceiling - 1023, TRUE),
     Base64Image("png", 999), Base64Image("jpeg", 1000), Base64Image("jpeg", 400000),
     PlainImage("svg+xml", 50), Placeholder}
HtmlDocuments(ceiling) == UNION {[1..n -> HtmlPieces(ceiling)] : n \in 0..MaxPieces}

\* /generate, from the rendered template on: the size check and the response
generate_template_size_check ==
    /\ guard_pc = "idle"
    /\ guard_route' = "/generate"
    /\ \E html \in HtmlDocuments(Ceiling("/generate")) \ {<<>>} :
        /\ guard_in' = html
        /\ LET r == size_check(html, Ceiling("/generate")) IN
            /\ guard_status' = r.status
            /\ guard_out' = r.html
            /\ guard_pc' = "returned"
    /\ UNCHANGED <<vars_config, vars_gen, vars_img, vars_sendy, vars_sch, vars_prm, vars_art>>

\* /send-to-sendy: the 400 answers, the size check, then the call of
\* generator.send_to_sendy with the HTML the check let through
send_to_sendy_route ==
    /\ guard_pc = "idle"
    /\ guard_route' = "/send-to-sendy"
    /\ \E html \in HtmlDocuments(Ceiling("/send-to-sendy")),
          has_content \in BOOLEAN, list_ids \in {"", "Lst1"} :
        /\ guard_in' = html
        /\ IF ~has_content \/ html = <<>> \/ (variant = "main" /\ list_ids = "")
           THEN /\ guard_status' = 400
                /\ guard_out' = <<>>
                /\ guard_pc' = "returned"
           ELSE LET r == size_check(html, Ceiling("/send-to-sendy")) IN
                /\ guard_status' = r.status
                /\ guard_out' = r.html
                /\ guard_pc' = IF r.status = 200 THEN "forwarded" ELSE "returned"
    /\ UNCHANGED <<vars_config, vars_gen, vars_img, vars_sendy, vars_sch, vars_prm, vars_art>>

----------------------------------------------------------------------------
(* ImagePromptGenerator: TemplateGenerator.generate_image_prompt *)

image_system_prompt == "expert at creating image prompts for email marketing"
ImagePromptRequest(content) ==
    [model |-> "gpt-4", system |-> image_system_prompt,
     user |-> [prefix |-> "Create an image prompt for this email content: ", content |-> content],
     temperature |-> 8]

fallback_image_prompt ==
    "Professional email marketing image with modern design, bright lighting, and engaging visual elements"

Str(text) == [str |-> text]

\* response.choices[0].message.content: a description, the empty string,
\* or None
PromptReplies ==
    {Str("A sunlit Bahamian beach bar with a bowl of conch salad, landscape, photo-realistic"),
     Str(""), None}
PromptContents == JsonBodies \cup {get_fallback_content(prompt) : prompt \in Prompts}

\* what the call or the access to choices[0].message.content can raise
PromptFailures == ChatFailures \ {"JSONDecodeError"}

\* The except clauses, matched in order as in generate_email_content: every
\* clause returns the fixed sentence, and the clause naming
\* openai.QuotaExceededError raises AttributeError where the package lacks it.
\* Result: "fallback" or "raise".
PromptHandler(exc) ==
    IF exc = "RateLimitError" THEN "fallback"
    ELSE IF ~hasQuotaExceededError THEN "raise"
    ELSE "fallback"

\* try: one gpt-4 call, return message.content as it is; on failure the
\* except chain
generate_image_prompt ==
    /\ prm_pc = "idle"
    /\ \E content \in PromptContents :
        /\ prm_calls' = Append(prm_calls, ImagePromptRequest(content))
        /\ \/ \E reply \in PromptReplies :
                /\ prm_outcome' = "ok"
                /\ prm_result' = reply
                /\ prm_pc' = "returned"
           \/ \E exc \in PromptFailures :
                /\ prm_outcome' = exc
                /\ IF PromptHandler(exc) = "fallback"
                   THEN /\ prm_result' = Str(fallback_image_prompt)
                        /\ prm_pc' = "returned"
                   ELSE /\ prm_pc' = "raised"
                        /\ UNCHANGED prm_result
    /\ UNCHANGED <<vars_config, vars_gen, vars_img, vars_sendy, vars_sch, vars_guard, vars_art>>

----------------------------------------------------------------------------
(* /generate: the files two requests write *)

Requests == {1, 2}
MaxClock == 2           \* seconds the wall clock advances while the requests run
ArtSubjects == {"Fish Fry Friday!", "Fish Fry  Friday?", " Conch-Fest 2026 "}

\* re.sub(r'[^a-zA-Z0-9\s-]', '', s)
RECURSIVE keep_name_chars(_)
keep_name_chars(s) ==
    IF Len(s) = 0 THEN s
    ELSE IF Len(s) = 1
    THEN IF \/ \E k \in DOMAIN UpperCase : UpperCase[k] = s \/ LowerCase[k] = s
            \/ IsDigit(s) \/ IsSpace(s) \/ s = "-"
         THEN s ELSE ""
    ELSE LET h == Len(s) \div 2
         IN  keep_name_chars(SubSeq(s, 1, h)) \o keep_name_chars(SubSeq(s, h + 1, Len(s)))

\* str.strip()
strip(s) ==
    LET inked == {p \in 1..Len(s) : ~IsSpace(CharAt(s, p))} IN
    IF inked = {} THEN ""
    ELSE SubSeq(s, CHOOSE a \in inked : \A b \in inked : a <= b,
                   CHOOSE a \in inked : \A b \in inked : a >= b)

\* re.sub(r'\s+', '-', s) on s[from..to]: each run of spaces becomes one '-'
RECURSIVE dashed(_, _, _)
dashed(s, from, to) ==
    IF from > to THEN ""
    ELSE IF from = to
    THEN IF ~IsSpace(CharAt(s, from)) THEN CharAt(s, from)
         ELSE IF IsSpace(CharAt(s, from - 1)) THEN "" ELSE "-"
    ELSE LET h == (from + to) \div 2
         IN  dashed(s, from, h) \o dashed(s, h + 1, to)

\* campaign_name of a subject line
campaign_name(subject_line) ==
    LET kept == strip(keep_name_chars(subject_line))
        name == dashed(kept, 1, Len(kept))
    IN  SubSeq(name, 1, Min(50, Len(name)))

\* datetime.now().strftime("%Y%m%d_%H%M%S") at second art_clock of one minute
timestamp_of(clock) == "20261103_1200" \o TwoDigits(clock)

template_filename(name, timestamp) == "templates/" \o name \o "_" \o timestamp \o ".html"
image_filename(name, timestamp) == "images/" \o name \o "_" \o timestamp \o ".jpeg"

\* the wall clock advances
clock_tick ==
    /\ art_clock < MaxClock
    /\ art_clock' = art_clock + 1
    /\ UNCHANGED <<art_req, art_writes, vars_config, vars_gen, vars_img, vars_sendy,
                   vars_sch, vars_guard, vars_prm>>

\* content and image are there: campaign_name and timestamp are computed
name_and_timestamp(r) ==
    /\ art_req[r].pc = "idle"
    /\ \E subject_line \in ArtSubjects, has_image \in BOOLEAN :
        art_req' = [art_req EXCEPT ![r] =
            [pc |-> "stamped", subject_line |-> subject_line, has_image |-> has_image,
             campaign_name |-> campaign_name(subject_line),
             timestamp |-> timestamp_of(art_clock),
             image_saved |-> FALSE, template_saved |-> FALSE]]
    /\ UNCHANGED <<art_clock, art_writes, vars_config, vars_gen, vars_img, vars_sendy,
                   vars_sch, vars_guard, vars_prm>>

\* the image, when there is one, is written (template_generator.py: before
\* the template; template_generator_fresh.py: after it); open(path, 'wb')
\* truncates a file that exists
save_image(r) ==
    /\ art_req[r].pc = "stamped"
    /\ ~art_req[r].image_saved
    /\ variant = "fresh" => art_req[r].template_saved
    /\ art_writes' =
        IF art_req[r].has_image
        THEN Append(art_writes,
                [path |-> image_filename(art_req[r].campaign_name, art_req[r].timestamp),
                 request |-> r])
        ELSE art_writes
    /\ art_req' = [art_req EXCEPT ![r].image_saved = TRUE,
                                  ![r].pc = IF variant = "fresh" THEN "done" ELSE "stamped"]
    /\ UNCHANGED <<art_clock, vars_config, vars_gen, vars_img, vars_sendy,
                   vars_sch, vars_guard, vars_prm>>

\* open(template_filename, 'w') and write
save_template(r) ==
    /\ art_req[r].pc = "stamped"
    /\ ~art_req[r].template_saved
    /\ variant = "main" => art_req[r].image_saved
    /\ art_writes' = Append(art_writes,
            [path |-> template_filename(art_req[r].campaign_name, art_req[r].timestamp),
             request |-> r])
    /\ art_req' = [art_req EXCEPT ![r].template_saved = TRUE,
                                  ![r].pc = IF variant = "main" THEN "done" ELSE "stamped"]
    /\ UNCHANGED <<art_clock, vars_config, vars_gen, vars_img, vars_sendy,
                   vars_sch, vars_guard, vars_prm>>

----------------------------------------------------------------------------
InitConfig ==
    /\ variant \in Variants
    /\ hasQuotaExceededError \in BOOLEAN
    /\ SENDY_API_KEY \in (IF variant = "fresh" THEN {FreshSendyKey} ELSE EnvSendyKeys)

InitGenerate ==
    /\ gen_pc = "idle"
    /\ gen_prompt = ""
    /\ gen_calls = <<>>
    /\ gen_primary = "none"
    /\ gen_secondary = "none"
    /\ gen_path = "none"
    /\ gen_result = NoContent

InitImage ==
    /\ img_pc = "idle"
    /\ img_api = "none"
    /\ img_request = None
    /\ img_status = NotCalled
    /\ img_original_size = 0
    /\ img_in = <<0, 0>>
    /\ img_out = <<0, 0>>
    /\ img_encodes = <<>>
    /\ img_result = None

InitSendy ==
    /\ sendy_pc = "idle"
    /\ sendy_args = NoValue
    /\ sendy_http = <<>>
    /\ sendy_live = NotCalled
    /\ sendy_probe_status = NotCalled
    /\ sendy_payload = NoValue
    /\ sendy_i = 0
    /\ sendy_j = 0
    /\ sendy_seen = {}
    /\ sendy_result = NoValue

InitSchedule ==
    /\ sch_pc = "idle"
    /\ sch_option = "draft"
    /\ sch_requested = NoTimestamp
    /\ sch_out = NoValue

InitSizeGuard ==
    /\ guard_pc = "idle"
    /\ guard_route = "none"
    /\ guard_in = <<>>
    /\ guard_out = <<>>
    /\ guard_status = 0

InitImagePrompt ==
    /\ prm_pc = "idle"
    /\ prm_calls = <<>>
    /\ prm_outcome = "none"
    /\ prm_result = None

InitArtifacts ==
    /\ art_clock = 0
    /\ art_req = [r \in Requests |->
            [pc |-> "idle", subject_line |-> "", has_image |-> FALSE, campaign_name |-> "",
             timestamp |-> "", image_saved |-> FALSE, template_saved |-> FALSE]]
    /\ art_writes = <<>>

Init ==
    /\ InitConfig /\ InitGenerate /\ InitImage /\ InitSendy
    /\ InitSchedule /\ InitSizeGuard /\ InitImagePrompt /\ InitArtifacts

NextGenerate ==
    \/ generate_email_content_primary
    \/ generate_email_content_secondary

SpecGenerate == Init /\ [][NextGenerate]_vars

NextImage ==
    \/ generate_image_call
    \/ download_failed
    \/ download_and_process_image_error
    \/ download_and_process_image

SpecImage == Init /\ [][NextImage]_vars

NextSendy ==
    \/ send_to_sendy_start
    \/ send_to_sendy_probe
    \/ send_to_sendy_attempt

SpecSendy == Init /\ [][NextSendy]_vars

NextSchedule == send_option_branch

SpecSchedule == Init /\ [][NextSchedule]_vars

NextSizeGuard ==
    \/ generate_template_size_check
    \/ send_to_sendy_route

SpecSizeGuard == Init /\ [][NextSizeGuard]_vars

NextImagePrompt == generate_image_prompt

SpecImagePrompt == Init /\ [][NextImagePrompt]_vars

NextArtifacts ==
    \/ clock_tick
    \/ \E r \in Requests : name_and_timestamp(r)
    \/ \E r \in Requests : save_image(r)
    \/ \E r \in Requests : save_template(r)

SpecArtifacts == Init /\ [][NextArtifacts]_vars


----------------------------------------------------------------------------
(* Properties of ContentGenerator *)

IsFailure(outcome) == outcome \notin {"none", "ok"}
SecondaryCalls == Cardinality({k \in DOMAIN gen_calls : gen_calls[k].model = "gpt-3.5-turbo"})

\* the non-optional fields of CampaignContent
RequiredFields ==
    {"subject_line", "hero_title", "greeting", "bullet_points", "main_content",
     "cta_text", "cta_url"}

\* C1: generate_email_content never raises: whatever the prompt and the
\* outcomes of the model calls, control never leaves the function by an
\* exception.
C1_NeverRaises == gen_pc # "raised"

\* C2: every record generate_email_content returns carries all required
\* CampaignContent fields, on the primary, secondary and fallback paths.
C2_RequiredFieldsPresent ==
    gen_pc = "returned" => RequiredFields \subseteq DOMAIN gen_result

----------------------------------------------------------------------------
(* Properties of ImageGenerator + ImageProcessor *)

\* C5: a non-null artifact encodes at most 300 KiB of JPEG, namely the
\* bytes of the last encode; an image still over 300 KiB after the
\* quality-20 encode yields null.
C5_ArtifactWithinLimit ==
    /\ (img_pc = "returned" /\ img_result # None) =>
        /\ img_encodes # <<>>
        /\ img_result.bytes = img_encodes[Len(img_encodes)].size
        /\ img_result.bytes <= 300 * 1024
    /\ (Len(img_encodes) = 3 /\ img_encodes[3].size > 300 * 1024) => img_result = None

C5_Witness ==
    /\ img_pc = "returned" /\ img_result # None
    /\ Len(img_encodes) = 3 /\ img_result.bytes = 300 * 1024

\* C6: the first encode uses quality 60 when the download is strictly
\* larger than 1 MiB and 70 otherwise, 70 at exactly 1 MiB included,
\* whatever the size of the encoded results.
C6_InitialQuality ==
    img_encodes # <<>> =>
        img_encodes[1].quality = IF img_original_size > 1048576 THEN 60 ELSE 70

C6_Witness ==
    /\ img_encodes # <<>> /\ img_original_size = 1048576
    /\ img_encodes[1].quality = 70 /\ img_encodes[1].size > 300 * 1024

\* round(a / b), halves to even
RoundHalfEven(a, b) ==
    LET q == a \div b
        r == a % b
    IN  IF 2 * r < b THEN q
        ELSE IF 2 * r > b THEN q + 1
        ELSE IF q % 2 = 0 THEN q ELSE q + 1

\* C7 (as stated): a processed image of width W # 560 and height H comes
\* out 560 wide and round(H * 560 / W) high; with W = 560 it is unchanged.
C7_RoundedHeight ==
    img_encodes # <<>> =>
        IF img_in[1] # 560
        THEN img_out = <<560, RoundHalfEven(img_in[2] * 560, img_in[1])>>
        ELSE img_out = img_in

\* C7 (amended): a processed image of width W # 560 and height H comes
\* out 560 wide and int(H * (560 / W)) high, the truncated double product:
\* floor(H * 560 / W) when H * 560 / W is not a whole number, that whole
\* number or one less when it is; with W = 560 it is unchanged.
C7_TruncatedHeight ==
    img_encodes # <<>> =>
        IF img_in[1] # 560
        THEN LET n == (img_in[2] * 560) \div img_in[1] IN
             /\ img_out[1] = 560
             /\ img_out[2] \in {n - 1, n}
             /\ (img_in[2] * 560) % img_in[1] # 0 => img_out[2] = n
             /\ img_out[2] > 0
        ELSE img_out = img_in

C7_Witness ==
    /\ img_encodes # <<>>
    /\ img_in = <<1000, 1001>> /\ img_out = <<560, 560>>

\* C8: generate_image never raises; every failure of the API call, of the
\* download or of the processing returns null, and a non-null result is a
\* base64 data reference of type image/jpeg.
C8_ImageNeverRaises ==
    /\ img_pc # "raised"
    /\ (img_pc = "returned" /\ (IsFailure(img_api) \/ img_status # 200)) => img_result = None
    /\ img_result # None =>
        img_result.mime = "image/jpeg" /\ img_result.encoding = "base64"

----------------------------------------------------------------------------
(* Properties of CampaignDispatcher *)

CampaignPosts == {k \in DOMAIN sendy_http : sendy_http[k].timeout = 30}

\* C9: with SENDY_API_KEY empty, send_to_sendy returns the failure record
\* naming the missing credential and has issued no HTTP request.
C9_NoCredentialNoRequest ==
    SENDY_API_KEY = "" =>
        /\ sendy_http = <<>>
        /\ sendy_pc \in {"idle", "returned"}
        /\ sendy_pc = "returned" =>
            /\ sendy_result.success = FALSE
            /\ sendy_result.error = "SENDY_API_KEY environment variable is not set"

C9_Witness ==
    /\ SENDY_API_KEY = "" /\ sendy_pc = "returned"
    /\ sendy_result.success = FALSE /\ sendy_http = <<>>

\* C10 (as stated): a campaign POST answered with any 2xx status ends the
\* dispatch at once with success = true.
C10_Any2xxEnds ==
    \A status \in sendy_seen :
        (status >= 200 /\ status < 300) =>
            sendy_pc = "returned" /\ sendy_result.success = TRUE

\* C10 (amended): a campaign POST answered with status 200 ends the
\* dispatch at once with success = true and the body of that response,
\* whatever the earlier attempts returned (403, any other status, other 2xx
\* included, or a network exception); success is returned for no other
\* reason, and no request is issued once the function has returned.
C10_First200Ends ==
    /\ [](/\ 200 \in sendy_seen <=>
                (sendy_pc = "returned" /\ DOMAIN sendy_result = {"success", "message", "response"})
          /\ 200 \in sendy_seen =>
                /\ sendy_result.success = TRUE
                /\ sendy_result.response \in ResponseBodies
                /\ sendy_result.message =
                        "Successfully sent to Sendy using " \o sendy_endpoints[sendy_i]
                /\ Cardinality(CampaignPosts) = 4 * (sendy_i - 1) + sendy_j
                /\ sendy_http[Len(sendy_http)].url = sendy_endpoints[sendy_i])
    /\ [][sendy_pc = "returned" => sendy_http' = sendy_http]_vars

C10_Witness ==
    /\ sendy_pc = "returned" /\ sendy_result.success = TRUE
    /\ sendy_seen = {NoResponse, 200, 201, 403, 500}
    /\ sendy_i = 3 /\ sendy_j = 2

\* can campaign_data be built from these arguments without an exception
Buildable(args) ==
    /\ IndexedFields \subseteq DOMAIN args.content
    /\ schedule_of(args).kind # "error"

\* C11: when all 16 (endpoint, config) attempts have failed, the record
\* returned is a failure carrying debug_info with the endpoints tried, the
\* curl command and the suggestions, in both source files.
C11_ExhaustionDiagnostic ==
    (sendy_pc = "returned" /\ Cardinality(CampaignPosts) = 16 /\ 200 \notin sendy_seen) =>
        /\ sendy_result.success = FALSE
        /\ "debug_info" \in DOMAIN sendy_result
        /\ {"endpoints_tried", "curl_command", "suggestions"}
                \subseteq DOMAIN sendy_result.debug_info
        /\ sendy_result.debug_info.endpoints_tried = sendy_endpoints

\* C16: when the accessibility GET raised, send_to_sendy has returned the
\* failure record carrying that error, and the GET is the only request
\* issued: no API-key test POST and no campaign POST follows.
C16_LivenessFailureEnds ==
    sendy_live = NoResponse =>
        /\ sendy_pc = "returned"
        /\ sendy_result.success = FALSE
        /\ sendy_result.error = "Sendy installation not accessible: ConnectionError"
        /\ Len(sendy_http) = 1
        /\ sendy_http[1] = HttpRequest("GET", test_url, 10, "none")
        /\ sendy_probe_status = NotCalled
        /\ CampaignPosts = {}

C16_Witness ==
    /\ sendy_live = NoResponse /\ sendy_pc = "returned"
    /\ Len(sendy_http) = 1 /\ sendy_result.success = FALSE

\* C17: the API-key test POST is logging-only: whatever its outcome (any
\* status, or an exception), send_to_sendy never returns because of it but
\* goes on to build the payload and to the campaign attempts, and what it
\* returns is what the arguments and the campaign attempts alone
\* determine: the record of the payload error, of the first 200, or of the
\* exhausted loop.
C17_ProbeLoggingOnly ==
    sendy_probe_status # NotCalled =>
        IF Buildable(sendy_args)
        THEN /\ sendy_payload = campaign_data(sendy_args)
             /\ \/ sendy_pc = "loop"
                \/ /\ sendy_pc = "returned"
                   /\ CampaignPosts # {}
                   /\ sendy_result =
                        IF 200 \in sendy_seen
                        THEN SuccessResult(sendy_endpoints[sendy_i], sendy_result.response)
                        ELSE exhausted_result
        ELSE /\ sendy_pc = "returned"
             /\ sendy_result = ErrorResult(build_error(sendy_args))

C17_Witness ==
    /\ sendy_probe_status = NoResponse
    /\ sendy_pc = "returned" /\ sendy_result.success = TRUE
    /\ Cardinality(CampaignPosts) = 1

\* C18 (as stated): once the credential is set, send_to_sendy returns only
\* with a successful attempt or after all 16 (endpoint, config) pairs.
C18_OnlySuccessOrExhaustion ==
    (SENDY_API_KEY # "" /\ sendy_pc = "returned") =>
        \/ sendy_result.success = TRUE
        \/ Cardinality(CampaignPosts) = 16

\* C18 (amended): an exception of requests on a campaign POST never ends
\* the dispatch: the attempts go through the configs of an endpoint in
\* order, then to the next endpoint, whatever each one answered or raised,
\* and once the first campaign POST has been issued the function returns
\* only on a 200 or after all 16 pairs; before the loop it also returns on
\* a failed accessibility GET and on an exception of the payload
\* construction.
C18_LoopEndsOnSuccessOrExhaustion ==
    /\ \A k \in CampaignPosts :
        /\ k > 2
        /\ sendy_http[k].url = sendy_endpoints[((k - 3) \div 4) + 1]
        /\ sendy_http[k].shape = ((k - 3) % 4) + 1
    /\ sendy_pc = "loop" =>
        /\ 200 \notin sendy_seen
        /\ Cardinality(CampaignPosts) = 4 * (sendy_i - 1) + (sendy_j - 1)
    /\ (sendy_pc = "returned" /\ CampaignPosts # {}) =>
        \/ 200 \in sendy_seen /\ sendy_result.success = TRUE
        \/ /\ 200 \notin sendy_seen
           /\ Cardinality(CampaignPosts) = 16
           /\ sendy_result = exhausted_result
    /\ (sendy_pc = "returned" /\ CampaignPosts = {} /\ ~credential_missing) =>
        \/ sendy_live = NoResponse /\ sendy_result = NotAccessibleResult
        \/ ~Buildable(sendy_args) /\ sendy_result = ErrorResult(build_error(sendy_args))

C18_Witness ==
    /\ sendy_pc = "returned" /\ sendy_seen = {NoResponse}
    /\ Cardinality(CampaignPosts) = 16
    /\ sendy_result.success = FALSE

----------------------------------------------------------------------------
(* Properties of the schedule time *)

\* the decimal numeral of n < 100, without leading zero
Numeral(n) == IF n < 10 THEN Digit(n) ELSE TwoDigits(n)

\* C12: a 'schedule' request for local time h:m, any hour 0..23 and minute
\* 0..59, leaves the branch with the minute rounded to the nearest multiple
\* of 5 and, when that is 60, with minute 0 of the next hour, and is not
\* ended by an exception.
C12_RoundedTimeSubmitted ==
    (sch_pc # "idle" /\ sch_option = "schedule" /\ sch_requested.kind = "ts") =>
        LET total == sch_requested.hour * 60 + ((sch_requested.minute + 2) \div 5) * 5 IN
        /\ sch_pc = "done"
        /\ sch_out.schedule_dt.minute = total % 60
        /\ sch_out.schedule_dt.hour = (total \div 60) % 24

\* C13: the send time is rendered "<Month> <day>, <year> <h>:<mm><am|pm>",
\* as in "June 15, 2021 6:05pm": the full month name, the day and the
\* 12-hour hour without leading zero, the minute with two digits, the
\* meridiem in lower case.
C13_RenderedSendTime ==
    (sch_pc = "done" /\ "schedule_date_time_str" \in DOMAIN sch_out) =>
        LET dt == sch_out.schedule_dt IN
        sch_out.schedule_date_time_str =
            MonthNames[dt.month] \o " " \o Numeral(dt.day) \o ", " \o FourDigits(dt.year)
                \o " " \o Numeral(Hour12(dt.hour)) \o ":" \o TwoDigits(dt.minute)
                \o (IF dt.hour < 12 THEN "am" ELSE "pm")

----------------------------------------------------------------------------
(* Properties of SizeGuard *)

\* every base64 image URI of at least 1000 characters replaced, all else kept
replace_large_images(html) ==
    [k \in DOMAIN html |->
        IF html[k].kind = "base64" /\ html[k].length >= 1000 THEN Placeholder ELSE html[k]]

Checked == guard_pc # "idle" /\ guard_status # 400

\* C14: HTML whose UTF-8 length is at most the ceiling of the route (800 KiB
\* in /generate, 1 MiB in /send-to-sendy) goes through unchanged: what is
\* returned or handed to send_to_sendy is the input, embedded base64 images
\* included.
C14_WithinCeilingUnchanged ==
    (Checked /\ utf8_len(guard_in) <=
            (IF guard_route = "/generate" THEN 819200 ELSE 1048576)) =>
        /\ guard_status = 200
        /\ guard_out = guard_in

C14_Witness ==
    /\ guard_pc = "forwarded" /\ guard_route = "/send-to-sendy"
    /\ utf8_len(guard_in) = 1048576
    /\ \E k \in DOMAIN guard_in : guard_in[k] = Base64Image("jpeg", 1000)
    /\ guard_out = guard_in

\* C15: for HTML over the ceiling the check either lets through the input
\* with every base64 image URI of at least 1000 base64 characters replaced
\* by the placeholder and nothing else changed, of UTF-8 length at most the
\* ceiling, or answers 413 and neither returns the HTML nor calls
\* send_to_sendy.
C15_ReplacedOrRejected ==
    LET ceiling == IF guard_route = "/generate" THEN 819200 ELSE 1048576 IN
    (Checked /\ utf8_len(guard_in) > ceiling) =>
        \/ /\ guard_status = 200
           /\ guard_out = replace_large_images(guard_in)
           /\ utf8_len(guard_out) <= ceiling
        \/ /\ guard_status = 413
           /\ guard_pc = "returned"
           /\ guard_out = <<>>

----------------------------------------------------------------------------
(* Properties of ImagePromptGenerator *)

\* C20: generate_image_prompt makes exactly one model call, returns the
\* fixed sentence on any error, never raises, and returns a non-empty
\* string whatever the model answered.
C20_OneCallNonEmptyNeverRaises ==
    prm_pc # "idle" =>
        /\ Len(prm_calls) = 1
        /\ prm_pc = "returned"
        /\ IsFailure(prm_outcome) => prm_result = Str(fallback_image_prompt)
        /\ prm_result # None
        /\ prm_result.str # ""

----------------------------------------------------------------------------
(* Properties across the components, and of the remaining behaviours *)

\* C21: every outbound HTTP request is issued with an explicit finite
\* timeout: the accessibility GET, the API-key test POST, each campaign
\* POST, and the image download GET.
C21_EveryCallHasTimeout ==
    /\ \A k \in DOMAIN sendy_http : sendy_http[k].timeout > NoTimeout
    /\ img_request # None => img_request.timeout > NoTimeout

\* C22: two /generate requests never write the same artifact path: no
\* template or image file written by one request is written by the other.
C22_NoSharedArtifactPath ==
    \A a, b \in DOMAIN art_writes :
        art_writes[a].path = art_writes[b].path =>
            art_writes[a].request = art_writes[b].request

\* C23: the encodes of one image are ordered and bounded: the first at the
\* initial quality, a second at quality 30 only if the first exceeds
\* 300 KiB, a third at quality 20 only if the second exceeds 300 KiB, never
\* more than three; an artifact returned is the last encode made, and it is
\* the first one that fits.
C23_LadderOrdered ==
    /\ Len(img_encodes) <= 3
    /\ img_encodes # <<>> =>
        img_encodes[1].quality = (IF img_original_size > 1048576 THEN 60 ELSE 70)
    /\ Len(img_encodes) >= 2 =>
        img_encodes[1].size > 307200 /\ img_encodes[2].quality = 30
    /\ Len(img_encodes) = 3 =>
        img_encodes[2].size > 307200 /\ img_encodes[3].quality = 20
    /\ (img_pc = "returned" /\ img_result # None) =>
        /\ img_result.bytes = img_encodes[Len(img_encodes)].size
        /\ img_encodes[Len(img_encodes)].size <= 307200
        /\ \A k \in 1..(Len(img_encodes) - 1) : img_encodes[k].size > 307200

C23_Witness ==
    /\ img_pc = "returned" /\ img_result # None
    /\ Len(img_encodes) = 2
    /\ img_encodes[1].size = 307201 /\ img_encodes[2].size = 307200

\* the number of requests send_to_sendy can still issue
requests_left ==
    IF sendy_pc \in {"returned", "raised"} THEN 0 ELSE 19 - Len(sendy_http)

\* until send_to_sendy has returned, one of its steps can be taken
step_possible ==
    \/ sendy_pc \in {"returned", "raised"}
    \/ sendy_pc = "idle" /\ SendyCalls # {}
    \/ sendy_pc = "probe"
    \/ sendy_pc = "loop" /\ sendy_i \in 1..4 /\ sendy_j \in 1..4

\* the campaign POSTs so far follow the endpoint order and, within each
\* endpoint, the shape order
posts_in_order ==
    LET order == <<"https://kemis.net/sendy/api/campaigns/create.php",
                   "https://kemis.net/sendy/api/campaigns/create",
                   "https://kemis.net/sendy/api/campaigns.php",
                   "https://kemis.net/sendy/api/campaigns">>
        gets == {k \in DOMAIN sendy_http : sendy_http[k].method = "GET"}
        probes == {k \in DOMAIN sendy_http : sendy_http[k].url = test_api_url}
    IN  /\ [j \in 1..4 |-> test_configs[j].body] = <<"data", "data", "data", "json">>
        /\ [j \in 1..4 |-> Cardinality(test_configs[j].headers)] = <<1, 0, 3, 1>>
        /\ Cardinality(gets) <= 1 /\ gets \subseteq {1}
        /\ Cardinality(probes) <= 1 /\ probes \subseteq {2}
        /\ Cardinality(CampaignPosts) <= 16
        /\ DOMAIN sendy_http = gets \cup probes \cup CampaignPosts
        /\ \A k \in CampaignPosts :
                /\ k \in 3..18
                /\ sendy_http[k].method = "POST"
                /\ sendy_http[k].url = order[((k - 3) \div 4) + 1]
                /\ sendy_http[k].shape = ((k - 3) % 4) + 1
        /\ \A a, b \in CampaignPosts :
                (sendy_http[a].url = sendy_http[b].url
                    /\ sendy_http[a].shape = sendy_http[b].shape) => a = b

\* C24: send_to_sendy ends after at most one accessibility GET, one API-key
\* test POST and 16 campaign POSTs; the campaign POSTs go through the four
\* endpoints in the order create.php, create, campaigns.php, campaigns and,
\* within each, through the four request shapes in order, and no
\* (endpoint, shape) pair is posted twice.
\* Termination is stated by a variant: until the function has returned a
\* step is possible, and every step lowers the number of requests that
\* can still be issued, which starts at 19 and is never negative.
C24_BoundedOrderedAttempts ==
    /\ [](posts_in_order /\ requests_left >= 0)
    /\ [](step_possible)
    /\ [][requests_left' < requests_left]_vars

C24_Witness ==
    /\ sendy_pc = "returned" /\ Len(sendy_http) = 18
    /\ sendy_http[18].url = "https://kemis.net/sendy/api/campaigns"
    /\ sendy_http[18].shape = 4

\* C25: no exception leaves send_to_sendy: whatever the content record (one
\* missing a field it reads included), the send option, the timestamp (one
\* that is not a number included) and the outcome of each request, it
\* returns a record with a boolean success, and with success false a
\* non-empty error string.
C25_AlwaysAResultRecord ==
    /\ sendy_pc # "raised"
    /\ sendy_pc = "returned" =>
        /\ "success" \in DOMAIN sendy_result
        /\ sendy_result.success \in BOOLEAN
        /\ sendy_result.success = FALSE =>
            "error" \in DOMAIN sendy_result /\ Len(sendy_result.error) > 0

C25_Witness ==
    /\ sendy_pc = "returned"
    /\ sendy_args.content = SubjectOnlyBody
    /\ sendy_args.scheduled_datetime.kind = "text"
    /\ sendy_probe_status = NoResponse
    /\ sendy_result = [success |-> FALSE, error |-> "Error sending to Sendy: 'hero_title'"]

\* C26: the model calls of generate_email_content are ordered and bounded:
\* the first call goes to gpt-4, a second call goes to gpt-3.5-turbo and is
\* made only after the first has failed, there are at most two calls, and
\* no call is made once a record has been obtained or the function has
\* been left.
C26_ModelCallsOrdered ==
    /\ [](/\ Len(gen_calls) <= 2
          /\ gen_calls # <<>> => gen_calls[1].model = "gpt-4"
          /\ Len(gen_calls) = 2 =>
                gen_calls[2].model = "gpt-3.5-turbo" /\ IsFailure(gen_primary)
          /\ (gen_primary = "ok" \/ gen_secondary = "ok") => gen_pc = "returned")
    /\ [][(gen_pc \in {"returned", "raised"}) => (gen_calls' = gen_calls)]_vars

C26_Witness ==
    /\ gen_pc = "returned" /\ Len(gen_calls) = 2
    /\ gen_primary = "APIError" /\ gen_secondary = "ok" /\ gen_path = "secondary"

\* C27: the send flag is '1' only for 'send_now' and for 'schedule' with a
\* timestamp; for every other input (draft, an option that is none of the
\* three, 'schedule' without a timestamp or with a zero timestamp, as a
\* number or as text) the flag is '0' and there is no schedule_date_time.
C27_SendFlagOnlyWhenAsked ==
    sch_pc = "done" =>
        IF sch_option = "send_now"
            \/ (sch_option = "schedule"
                    /\ sch_requested.kind \notin {"none", "zero", "zerotext"})
        THEN sch_out.send_campaign_value = "1"
        ELSE /\ sch_out.send_campaign_value = "0"
             /\ "schedule_date_time_str" \notin DOMAIN sch_out

\* C27, amended: the flag is '1' only for 'send_now' and for 'schedule'
\* with a timestamp Python takes as true; for draft, for an option that is
\* none of the three and for 'schedule' with no timestamp or the number 0
\* the flag is '0' and there is no schedule_date_time.  The text "0" is a
\* timestamp: it is scheduled for the epoch with flag '1'.
C27_SendFlagOnlyWhenTruthy ==
    sch_pc = "done" =>
        /\ IF sch_option = "send_now"
                \/ (sch_option = "schedule" /\ sch_requested.kind \notin {"none", "zero"})
           THEN sch_out.send_campaign_value = "1"
           ELSE /\ sch_out.send_campaign_value = "0"
                /\ "schedule_date_time_str" \notin DOMAIN sch_out
        /\ (sch_option = "schedule" /\ sch_requested = ZeroText) =>
                /\ "schedule_date_time_str" \in DOMAIN sch_out
                /\ sch_out.schedule_date_time_str = "january 1, 1970 12:00am"

C27_Witness ==
    /\ sch_pc = "done" /\ sch_option = "schedule" /\ sch_requested = ZeroTimestamp
    /\ sch_out.send_campaign_value = "0"
    /\ "schedule_date_time_str" \notin DOMAIN sch_out

\* does text hold part as a substring
Contains(text, part) ==
    \E p \in 1..(Len(text) - Len(part) + 1) : SubSeq(text, p, p + Len(part) - 1) = part

\* the strings of a result record
ResultTexts(result) ==
    {result[f] : f \in DOMAIN result \ {"success", "debug_info"}}
        \cup (IF "debug_info" \in DOMAIN result
              THEN {result.debug_info.api_key, result.debug_info.curl_command}
                    \cup {result.debug_info.suggestions[k] :
                            k \in DOMAIN result.debug_info.suggestions}
              ELSE {})

\* C28: no result of send_to_sendy holds SENDY_API_KEY in full: in every
\* text of every result, the curl command of the diagnostic included, at
\* most its first 8 characters appear.
C28_NoFullCredential ==
    (sendy_pc = "returned" /\ Len(SENDY_API_KEY) > 8) =>
        \A text \in ResultTexts(sendy_result) : ~Contains(text, SENDY_API_KEY)

\* C29: the result whose error says "All endpoints returned 403 Forbidden"
\* is returned only when every campaign POST was answered with status 403.
C29_ExhaustionErrorTruthful ==
    (sendy_pc = "returned" /\ "error" \in DOMAIN sendy_result
        /\ Contains(sendy_result.error, "All endpoints returned 403 Forbidden")) =>
            sendy_seen = {403}

\* C30: the substitution is idempotent: applied to HTML that has been
\* through it, it changes nothing, and the placeholder it puts in is never
\* where a match of the pattern starts.
C30_SubstitutionIdempotent ==
    guard_pc # "idle" =>
        LET once == compressed_html(guard_in) IN
        /\ compressed_html(once) = once
        /\ \A k \in DOMAIN once : once[k] = Placeholder => match_end(once, k) = 0
        /\ (guard_status = 200 /\ guard_out # guard_in) =>
                guard_out = once /\ compressed_html(guard_out) = guard_out

C30_Witness ==
    /\ guard_pc = "returned" /\ guard_route = "/generate" /\ guard_status = 200
    /\ guard_in = <<Base64Image("jpeg", 400000), Base64Image("jpeg", 1000),
                    Text(818177, 818177, TRUE)>>
    /\ guard_out = <<Placeholder, Placeholder, Text(818177, 818177, TRUE)>>

====
